---- MODULE Spec2Model ----
(***************************************************************************)
(* decibel (src/lib.rs): the wrappers AmplitudeRatio<T> and DecibelRatio<T>,*)
(* their read accessors, and the two conversions                           *)
(*     DecibelRatio::from(a)   = log10(a.amplitude_value()) * 20.0         *)
(*     AmplitudeRatio::from(d) = powf(10.0, d.decibel_value() / 20.0)      *)
(* instantiated for f32 and f64.                                           *)
(*                                                                         *)
(* A floating-point value is modelled with its IEEE-754 binary format: a   *)
(* class (nan, inf, zero, fin), a sign, and for a finite non-zero value a  *)
(* significand of at most p bits and an exponent, p = 24 for f32 and 53    *)
(* for f64.  TLC's integers are 32 bits wide, so significands and the      *)
(* fixed-point intermediates of log10 and powf are kept as six limbs of    *)
(* 15 bits, least significant first.                                       *)
(***************************************************************************)
EXTENDS Integers, Sequences, FiniteSets, TLC

-----------------------------------------------------------------------------
(* Unsigned multi-limb integers: <<l1, ..., l6>> is l1 + l2*B + ... + l6*B^5. *)

LimbBits == 15
Base == 2^LimbBits
LimbIx == 1..6
NLimbs == Cardinality(LimbIx)

BZero == [i \in LimbIx |-> 0]

BLimb(a, i) == IF i \in LimbIx THEN a[i] ELSE 0

\* n < 2^30
BFromInt(n) ==
  [i \in LimbIx |-> IF i = 1 THEN n % Base
                    ELSE IF i = 2 THEN n \div Base
                    ELSE 0]

RECURSIVE BAddC(_, _, _, _)
BAddC(a, b, i, c) ==
  IF i > NLimbs THEN <<>>
  ELSE LET s == a[i] + b[i] + c
       IN  <<(s % Base)>> \o BAddC(a, b, i + 1, s \div Base)

BAdd(a, b) == BAddC(a, b, 1, 0)

\* a >= b
RECURSIVE BSubC(_, _, _, _)
BSubC(a, b, i, c) ==
  IF i > NLimbs THEN <<>>
  ELSE LET s == a[i] - b[i] - c
       IN  IF s < 0 THEN <<s + Base>> \o BSubC(a, b, i + 1, 1)
                    ELSE <<s>> \o BSubC(a, b, i + 1, 0)

BSub(a, b) == BSubC(a, b, 1, 0)

\* -1, 0, 1 as a < b, a = b, a > b
RECURSIVE BCmpFrom(_, _, _)
BCmpFrom(a, b, i) ==
  IF i = 0 THEN 0
  ELSE IF a[i] < b[i] THEN -1
  ELSE IF a[i] > b[i] THEN 1
  ELSE BCmpFrom(a, b, i - 1)

BCmp(a, b) == BCmpFrom(a, b, NLimbs)

BLe(a, b) == BCmp(a, b) <= 0

\* floor(a / 2^k)
BShr(a, k) ==
  LET q == k \div LimbBits
      r == k % LimbBits
  IN  [i \in LimbIx |->
         (BLimb(a, i + q) \div 2^r)
         + ((BLimb(a, i + q + 1) % 2^r) * 2^(LimbBits - r))]

\* a * 2^k, the bits beyond the sixth limb dropped
BShl(a, k) ==
  LET q == k \div LimbBits
      r == k % LimbBits
  IN  [i \in LimbIx |->
         ((BLimb(a, i - q) * 2^r) % Base)
         + (BLimb(a, i - q - 1) \div 2^(LimbBits - r))]

\* c < 2^15
RECURSIVE BMulC(_, _, _, _)
BMulC(a, c, i, carry) ==
  IF i > NLimbs THEN <<>>
  ELSE LET s == (a[i] * c) + carry
       IN  <<(s % Base)>> \o BMulC(a, c, i + 1, s \div Base)

BMulSmall(a, c) == BMulC(a, c, 1, 0)

\* 0 < c < 2^15: <<quotient, remainder>> of a / c
RECURSIVE BDivC(_, _, _, _)
BDivC(a, c, i, rem) ==
  IF i = 0 THEN <<<<>>, rem>>
  ELSE LET s == (rem * Base) + a[i]
           rest == BDivC(a, c, i - 1, s % c)
       IN  <<rest[1] \o <<s \div c>>, rest[2]>>

BDivSmall(a, c) == BDivC(a, c, NLimbs, 0)

\* the number of bits of a: 0 for 0, else 1 + the position of the top set bit
RECURSIVE IntBitLen(_)
IntBitLen(n) == IF n = 0 THEN 0 ELSE 1 + IntBitLen(n \div 2)

RECURSIVE BBitLenFrom(_, _)
BBitLenFrom(a, i) ==
  IF i = 0 THEN 0
  ELSE IF a[i] # 0 THEN ((i - 1) * LimbBits) + IntBitLen(a[i])
  ELSE BBitLenFrom(a, i - 1)

BBitLen(a) == BBitLenFrom(a, NLimbs)

\* bit k of a, bit 0 the least significant
BBit(a, k) == (BLimb(a, k \div LimbBits + 1) \div 2^(k % LimbBits)) % 2

\* some bit of a below bit k is set
BSticky(a, k) == BShl(BShr(a, k), k) # a

-----------------------------------------------------------------------------
(* IEEE-754 binary formats.  A value is [c, s, m, e]: class, sign (1 is    *)
(* negative), and for class "fin" the value m * 2^e with m a significand   *)
(* of exactly p bits (normal) or fewer with e = emin - p + 1 (subnormal).  *)

Formats == {"f32", "f64"}

Precision(F) == IF F = "f32" THEN 24 ELSE 53
EMax(F) == IF F = "f32" THEN 127 ELSE 1023
EMin(F) == 1 - EMax(F)

NaN == [c |-> "nan", s |-> 0, m |-> BZero, e |-> 0]
Inf(s) == [c |-> "inf", s |-> s, m |-> BZero, e |-> 0]
Zero(s) == [c |-> "zero", s |-> s, m |-> BZero, e |-> 0]

\* round(big * 2^e2) to the nearest value of F, ties to even; big # 0 gives
\* a finite value or an infinity, big = 0 a zero
Round(F, s, big, e2) ==
  LET p == Precision(F)
      n == BBitLen(big)
      eLow == EMin(F) - p + 1
      e == IF e2 + n - p > eLow THEN e2 + n - p ELSE eLow
      sh == e - e2
      trunc == IF sh <= 0 THEN BShl(big, -sh) ELSE BShr(big, sh)
      half == IF sh <= 0 THEN 0 ELSE BBit(big, sh - 1)
      sticky == IF sh <= 1 THEN FALSE ELSE BSticky(big, sh - 1)
      up == half = 1 /\ (sticky \/ BBit(trunc, 0) = 1)
      m1 == IF up THEN BAdd(trunc, BFromInt(1)) ELSE trunc
      carry == BBitLen(m1) > p
      m == IF carry THEN BShr(m1, 1) ELSE m1
      ex == IF carry THEN e + 1 ELSE e
  IN  IF n = 0 \/ m = BZero THEN Zero(s)
      ELSE IF ex + p - 1 > EMax(F) THEN Inf(s)
      ELSE [c |-> "fin", s |-> s, m |-> m, e |-> ex]

\* the F value of a small integer literal, such as 1.0 or 32767.0
FromInt(F, s, n) == Round(F, s, BFromInt(n), 0)

\* the largest finite value and the smallest positive value of F
MaxFinite(F, s) ==
  [c |-> "fin", s |-> s, e |-> EMax(F) - Precision(F) + 1,
   m |-> BSub(BShl(BFromInt(1), Precision(F)), BFromInt(1))]
MinPositive(F, s) == Round(F, s, BFromInt(1), EMin(F) - Precision(F) + 1)

\* x * c for the exactly representable constant c = 1 .. 2^15 - 1
FMulInt(F, x, c) ==
  IF x.c # "fin" THEN x
  ELSE Round(F, x.s, BMulSmall(x.m, c), x.e)

\* x / c for the exactly representable constant c = 1 .. 2^15 - 1
FDivInt(F, x, c) ==
  IF x.c # "fin" THEN x
  ELSE LET up == 70 - BBitLen(x.m)
           qr == BDivSmall(BShl(x.m, up), c)
           q2 == BAdd(BShl(qr[1], 1), BFromInt(IF qr[2] = 0 THEN 0 ELSE 1))
       IN  Round(F, x.s, q2, x.e - up - 1)

-----------------------------------------------------------------------------
(* f32::log10 / f64::log10 and f32::powf / f64::powf.  Both are computed in *)
(* fixed point with FracBits fraction bits by shift-and-add over the table  *)
(* of log10(1 + 2^-k), and the result is rounded once to the format.  The   *)
(* absolute error before rounding is below 2^-64.                            *)

FracBits == 72

FixOne == BShl(BFromInt(1), FracBits)

\* round(log10(2) * 2^72)
LOG10_2 == <<19528, 20471, 2551, 618, 1233, 0>>

\* Log10Table[k] = round(log10(1 + 2^-k) * 2^72), k = 1 .. 72
Log10Table ==
  << <<22212, 24560, 23301, 8840, 721, 0>>,
     <<6953, 4121, 25113, 30913, 396, 0>>,
     <<24897, 28649, 11283, 17063, 209, 0>>,
     <<27064, 29447, 11008, 27634, 107, 0>>,
     <<499, 19940, 18264, 24208, 54, 0>>,
     <<28042, 6689, 10559, 19003, 27, 0>>,
     <<13102, 7890, 3652, 27637, 13, 0>>,
     <<8882, 5496, 26952, 30643, 6, 0>>,
     <<28017, 25106, 21555, 15432, 3, 0>>,
     <<24550, 19306, 2279, 24128, 1, 0>>,
     <<10275, 360, 32005, 28454, 0, 0>>,
     <<6169, 18640, 7362, 14229, 0, 0>>,
     <<28469, 25309, 1524, 7115, 0, 0>>,
     <<25581, 22686, 20703, 3557, 0, 0>>,
     <<30708, 7437, 27625, 1778, 0, 0>>,
     <<31006, 31636, 14034, 889, 0, 0>>,
     <<24945, 2345, 23457, 444, 0, 0>>,
     <<5798, 14192, 11742, 222, 0, 0>>,
     <<11366, 22639, 5874, 111, 0, 0>>,
     <<17770, 7013, 19322, 55, 0, 0>>,
     <<8033, 10622, 26045, 27, 0, 0>>,
     <<32504, 23473, 29406, 13, 0, 0>>,
     <<23377, 12181, 31087, 6, 0, 0>>,
     <<1182, 22586, 15543, 3, 0, 0>>,
     <<26637, 27704, 24155, 1, 0, 0>>,
     <<11638, 30243, 28461, 0, 0, 0>>,
     <<13591, 31507, 14230, 0, 0, 0>>,
     <<4642, 15754, 7115, 0, 0, 0>>,
     <<5879, 24261, 3557, 0, 0, 0>>,
     <<20213, 28514, 1778, 0, 0, 0>>,
     <<10329, 14257, 889, 0, 0, 0>>,
     <<21604, 23512, 444, 0, 0, 0>>,
     <<10816, 11756, 222, 0, 0, 0>>,
     <<5411, 5878, 111, 0, 0, 0>>,
     <<2707, 19323, 55, 0, 0, 0>>,
     <<17738, 26045, 27, 0, 0, 0>>,
     <<25253, 29406, 13, 0, 0, 0>>,
     <<12626, 31087, 6, 0, 0, 0>>,
     <<22697, 15543, 3, 0, 0, 0>>,
     <<27733, 24155, 1, 0, 0, 0>>,
     <<30250, 28461, 0, 0, 0, 0>>,
     <<31509, 14230, 0, 0, 0, 0>>,
     <<15755, 7115, 0, 0, 0, 0>>,
     <<24261, 3557, 0, 0, 0, 0>>,
     <<28515, 1778, 0, 0, 0, 0>>,
     <<14257, 889, 0, 0, 0, 0>>,
     <<23513, 444, 0, 0, 0, 0>>,
     <<11756, 222, 0, 0, 0, 0>>,
     <<5878, 111, 0, 0, 0, 0>>,
     <<19323, 55, 0, 0, 0, 0>>,
     <<26046, 27, 0, 0, 0, 0>>,
     <<29407, 13, 0, 0, 0, 0>>,
     <<31087, 6, 0, 0, 0, 0>>,
     <<15544, 3, 0, 0, 0, 0>>,
     <<24156, 1, 0, 0, 0, 0>>,
     <<28462, 0, 0, 0, 0, 0>>,
     <<14231, 0, 0, 0, 0, 0>>,
     <<7115, 0, 0, 0, 0, 0>>,
     <<3558, 0, 0, 0, 0, 0>>,
     <<1779, 0, 0, 0, 0, 0>>,
     <<889, 0, 0, 0, 0, 0>>,
     <<445, 0, 0, 0, 0, 0>>,
     <<222, 0, 0, 0, 0, 0>>,
     <<111, 0, 0, 0, 0, 0>>,
     <<56, 0, 0, 0, 0, 0>>,
     <<28, 0, 0, 0, 0, 0>>,
     <<14, 0, 0, 0, 0, 0>>,
     <<7, 0, 0, 0, 0, 0>>,
     <<3, 0, 0, 0, 0, 0>>,
     <<2, 0, 0, 0, 0, 0>>,
     <<1, 0, 0, 0, 0, 0>>,
     <<0, 0, 0, 0, 0, 0>> >>

\* One step of log10 of the fixed-point x in [1, 2): the factor (1 + 2^-k)
\* joins the product P when P stays <= x, and its logarithm joins the sum.
LogStep(x, st, k) ==
  LET Pn == BAdd(st.P, BShr(st.P, k))
  IN  IF BLe(Pn, x) THEN [P |-> Pn, acc |-> BAdd(st.acc, Log10Table[k])]
                    ELSE st

\* steps lo .. hi in order, split in halves to keep the evaluation shallow;
\* once P = x no later step changes anything
RECURSIVE LogSteps(_, _, _, _)
LogSteps(x, st, lo, hi) ==
  IF lo = hi THEN LogStep(x, st, lo)
  ELSE LET mid == (lo + hi) \div 2
           left == LogSteps(x, st, lo, mid)
       IN  IF left.P = x THEN left ELSE LogSteps(x, left, mid + 1, hi)

\* One step of 10^r for the fixed-point r in [0, log10 2): the factor
\* (1 + 2^-k) joins the product when the sum of logarithms stays <= r.
ExpStep(r, st, k) ==
  LET an == BAdd(st.acc, Log10Table[k])
  IN  IF BLe(an, r) THEN [P |-> BAdd(st.P, BShr(st.P, k)), acc |-> an]
                    ELSE st

\* steps lo .. hi in order; once the sum is r the product is 10^r
RECURSIVE ExpSteps(_, _, _, _)
ExpSteps(r, st, lo, hi) ==
  IF lo = hi THEN ExpStep(r, st, lo)
  ELSE LET mid == (lo + hi) \div 2
           left == ExpSteps(r, st, lo, mid)
       IN  IF left.acc = r THEN left ELSE ExpSteps(r, left, mid + 1, hi)

StepsInit == [P |-> FixOne, acc |-> BZero]

\* <$T>::log10(x)
Log10(F, x) ==
  IF x.c = "nan" THEN NaN
  ELSE IF x.c = "zero" THEN Inf(1)
  ELSE IF x.s = 1 THEN NaN
  ELSE IF x.c = "inf" THEN Inf(0)
  ELSE LET n == BBitLen(x.m)
           E == x.e + n - 1
           xf == BShl(x.m, FracBits - (n - 1))
           frac == LogSteps(xf, StepsInit, 1, FracBits).acc
           whole == BMulSmall(LOG10_2, IF E < 0 THEN -E ELSE E)
       IN  IF E >= 0 THEN Round(F, 0, BAdd(whole, frac), -FracBits)
           ELSE IF BLe(frac, whole) THEN Round(F, 1, BSub(whole, frac), -FracBits)
           ELSE Round(F, 0, BSub(frac, whole), -FracBits)

\* the largest n <= 2^(j+1) - 1 + n0 with n * log10(2) <= a, built bit by bit
RECURSIVE FloorLog2Steps(_, _, _)
FloorLog2Steps(a, n, j) ==
  IF j < 0 THEN n
  ELSE IF BLe(BMulSmall(LOG10_2, n + 2^j), a)
       THEN FloorLog2Steps(a, n + 2^j, j - 1)
       ELSE FloorLog2Steps(a, n, j - 1)

\* <$T>::powf(10.0, y)
Pow10(F, y) ==
  IF y.c = "nan" THEN NaN
  ELSE IF y.c = "zero" THEN FromInt(F, 0, 1)
  ELSE IF y.c = "inf" THEN (IF y.s = 0 THEN Inf(0) ELSE Zero(0))
  ELSE LET top == y.e + BBitLen(y.m)
       IN  IF top > 9 THEN (IF y.s = 0 THEN Inf(0) ELSE Zero(0))
           ELSE LET sh == y.e + FracBits
                    a == IF sh >= 0 THEN BShl(y.m, sh) ELSE BShr(y.m, -sh)
                    fl == FloorLog2Steps(a, 0, 10)
                    below == BMulSmall(LOG10_2, fl)
                    exact == below = a
                    n == IF y.s = 0 \/ exact THEN fl ELSE fl + 1
                    r == IF y.s = 0 \/ exact THEN BSub(a, below)
                         ELSE BSub(BMulSmall(LOG10_2, n), a)
                    P == ExpSteps(r, StepsInit, 1, FracBits).P
                IN  Round(F, 0, P, (IF y.s = 0 THEN n ELSE -n) - FracBits)

-----------------------------------------------------------------------------
(* The wrappers and the operations of src/lib.rs.                          *)

\* pub struct AmplitudeRatio<T: Copy>(pub T), for T = F
AmplitudeRatio(F, v) == [kind |-> "AmplitudeRatio", F |-> F, v |-> v]

\* pub struct DecibelRatio<T: Copy>(pub T), for T = F
DecibelRatio(F, v) == [kind |-> "DecibelRatio", F |-> F, v |-> v]

\* the accessor returning the magnitude, self.0.abs()
amplitude_value_abs(self) ==
  IF self.v.c = "nan" THEN self.v ELSE [self.v EXCEPT !.s = 0]

\* pub fn amplitude_value(&self) -> T { self.0 }
amplitude_value(self) == self.v

\* pub fn decibel_value(&self) -> T { self.0 }
decibel_value(self) == self.v

\* the power-ratio formula, log10(a) * 10.0
DecibelFromPower(amplitude) ==
  DecibelRatio(amplitude.F,
               FMulInt(amplitude.F,
                       Log10(amplitude.F, amplitude_value(amplitude)), 10))

\* the factor inside the logarithm, log10(a * 20.0)
DecibelFromInside(amplitude) ==
  DecibelRatio(amplitude.F,
               Log10(amplitude.F,
                     FMulInt(amplitude.F, amplitude_value(amplitude), 20)))

\* silence clamped to the smallest positive amplitude before the logarithm
DecibelFromFloor(amplitude) ==
  DecibelRatio(amplitude.F,
               FMulInt(amplitude.F,
                       Log10(amplitude.F,
                             IF amplitude_value(amplitude).c = "zero"
                               THEN MinPositive(amplitude.F, 0)
                               ELSE amplitude_value(amplitude)), 20))

\* the logarithm of the magnitude, log10(a.abs()) * 20.0
DecibelFromAbs(amplitude) ==
  DecibelRatio(amplitude.F,
               FMulInt(amplitude.F,
                       Log10(amplitude.F,
                             amplitude_value_abs(amplitude)), 20))

\* fn from(amplitude: AmplitudeRatio<$T>) -> DecibelRatio<$T>:
\*   DecibelRatio(<$T>::log10(amplitude.amplitude_value()) * 20.0)
DecibelFrom(amplitude) ==
  DecibelRatio(amplitude.F,
               FMulInt(amplitude.F,
                       Log10(amplitude.F, amplitude_value(amplitude)), 20))

\* the power-ratio formula, powf(10.0, d / 10.0)
AmplitudeFromPower(decibels) ==
  AmplitudeRatio(decibels.F,
                 Pow10(decibels.F,
                       FDivInt(decibels.F, decibel_value(decibels), 10)))

\* the division outside the power, powf(10.0, d) / 20.0
AmplitudeFromOutside(decibels) ==
  AmplitudeRatio(decibels.F,
                 FDivInt(decibels.F,
                         Pow10(decibels.F, decibel_value(decibels)), 20))

\* every infinite decibel value taken for silence
AmplitudeFromSilence(decibels) ==
  AmplitudeRatio(decibels.F,
                 IF decibel_value(decibels).c = "inf" THEN Zero(0)
                 ELSE Pow10(decibels.F,
                            FDivInt(decibels.F, decibel_value(decibels), 20)))

\* NaN taken for silence
AmplitudeFromNanSilent(decibels) ==
  AmplitudeRatio(decibels.F,
                 IF decibel_value(decibels).c = "nan" THEN Zero(0)
                 ELSE Pow10(decibels.F,
                            FDivInt(decibels.F, decibel_value(decibels), 20)))

\* fn from(decibels: DecibelRatio<$T>) -> AmplitudeRatio<$T>:
\*   AmplitudeRatio(<$T>::powf(10.0, decibels.decibel_value() / 20.0))
AmplitudeFrom(decibels) ==
  AmplitudeRatio(decibels.F,
                 Pow10(decibels.F,
                       FDivInt(decibels.F, decibel_value(decibels), 20)))

-----------------------------------------------------------------------------
(* The values a caller constructs a wrapper from.                          *)

\* the exponents -MaxExp .. MaxExp of the grid of inputs n * 2^e
MaxExp == 12

\* the conversions applied in a row to one constructed wrapper
MaxConv == 2

\* decimal literals of lib.rs as round(v * 2^72)
Dec6_02059991327962 == <<8307, 15653, 18264, 12361, 24660, 0>>
Dec90_30873362169473 == <<21254, 310, 8555, 18773, 9456, 11>>
Dec3_1622776601683795 == <<23463, 21692, 27949, 22586, 12952, 0>>
Dec0_001 == <<28574, 3407, 23855, 3145, 4, 0>>

\* the F value of a decimal literal given in fixed point
DecLit(F, s, fix) == Round(F, s, fix, -FracBits)

One(F) == FromInt(F, 0, 1)
Half(F) == Round(F, 0, BFromInt(1), -1)
Two(F) == FromInt(F, 0, 2)
Ten(F) == FromInt(F, 0, 10)
\* 1.0 / 32767.0
Lsb16(F) == FDivInt(F, One(F), 32767)
Plus6dB(F) == DecLit(F, 0, Dec6_02059991327962)
Minus6dB(F) == DecLit(F, 1, Dec6_02059991327962)
Minus90dB(F) == DecLit(F, 1, Dec90_30873362169473)
Sqrt10(F) == DecLit(F, 0, Dec3_1622776601683795)

Specials == {NaN, Inf(0), Inf(1), Zero(0), Zero(1)}

Literals(F) ==
  {One(F), Half(F), Two(F), Ten(F), Lsb16(F), Plus6dB(F), Minus6dB(F),
   Minus90dB(F), Zero(0)}

\* k * 6.02059991327962 dB, the decibel value of the amplitude 2^k
DbOfPow2(F, k) ==
  DecLit(F, IF k < 0 THEN 1 ELSE 0,
         BMulSmall(Dec6_02059991327962, IF k < 0 THEN -k ELSE k))

Grid(F) ==
  {Round(F, s, BFromInt(n), e) : s \in {0, 1}, n \in {1, 3, 5, 7},
                                 e \in -MaxExp..MaxExp}
  \cup {DbOfPow2(F, k) : k \in -MaxExp..3}

Extremes(F) ==
  {MaxFinite(F, 0), MaxFinite(F, 1), MinPositive(F, 0), MinPositive(F, 1)}

Values(F) == Specials \cup Literals(F) \cup Grid(F) \cup Extremes(F)

Wrappers ==
  UNION {{AmplitudeRatio(F, v) : v \in Values(F)}
         \cup {DecibelRatio(F, v) : v \in Values(F)} : F \in Formats}

-----------------------------------------------------------------------------
(* One caller: a wrapper is constructed, converted back and forth with     *)
(* into(), and read with the accessors.                                    *)

VARIABLES
  src,    \* the wrapper as constructed
  cur,    \* the wrapper the caller holds now
  prev,   \* the wrapper the last operation was applied to
  op,     \* the last operation
  ret,    \* what the last accessor call returned
  conv,   \* the conversions since construction
  th      \* the call each thread is in (the threads of SpecConc)

caller == <<src, cur, prev, op, ret, conv>>
vars == <<src, cur, prev, op, ret, conv, th>>

NoValue == [c |-> "none"]

\* the threads calling into the library at the same time
NThreads == 2
Threads == 1..NThreads

\* a thread outside any call
Idle == [pc |-> "idle", arg |-> NoValue, x |-> NoValue, out |-> NoValue]

Init ==
  /\ src \in Wrappers
  /\ cur = src
  /\ prev = src
  /\ op = "new"
  /\ ret = NoValue
  /\ conv = 0
  /\ th = [t \in Threads |-> Idle]

\* let d: DecibelRatio<_> = a.into();
IntoDecibel ==
  /\ cur.kind = "AmplitudeRatio"
  /\ conv < MaxConv
  /\ cur' = DecibelFrom(cur)
  /\ prev' = cur
  /\ op' = "into_decibel"
  /\ conv' = conv + 1
  /\ UNCHANGED <<src, ret, th>>

\* let a: AmplitudeRatio<_> = d.into();
IntoAmplitude ==
  /\ cur.kind = "DecibelRatio"
  /\ conv < MaxConv
  /\ cur' = AmplitudeFrom(cur)
  /\ prev' = cur
  /\ op' = "into_amplitude"
  /\ conv' = conv + 1
  /\ UNCHANGED <<src, ret, th>>

\* a.amplitude_value()
ReadAmplitude ==
  /\ cur.kind = "AmplitudeRatio"
  /\ ret' = amplitude_value(cur)
  /\ prev' = cur
  /\ op' = "amplitude_value"
  /\ UNCHANGED <<src, cur, conv, th>>

\* d.decibel_value()
ReadDecibel ==
  /\ cur.kind = "DecibelRatio"
  /\ ret' = decibel_value(cur)
  /\ prev' = cur
  /\ op' = "decibel_value"
  /\ UNCHANGED <<src, cur, conv, th>>

Next == IntoDecibel \/ IntoAmplitude \/ ReadAmplitude \/ ReadDecibel

Spec == Init /\ [][Next]_vars

-----------------------------------------------------------------------------
(* Several threads calling the conversions and accessors at once.  A call  *)
(* takes its wrapper by value (the wrappers are Copy), and its steps work  *)
(* on the call's own temporary x:                                          *)
(*   DecibelRatio::from:   x = amplitude.amplitude_value(); x = log10(x);  *)
(*                         return DecibelRatio(x * 20.0)                   *)
(*   AmplitudeRatio::from: x = decibels.decibel_value(); x = x / 20.0;     *)
(*                         return AmplitudeRatio(powf(10.0, x))            *)

ConcWrappers ==
  {AmplitudeRatio("f32", Half("f32")), AmplitudeRatio("f64", Lsb16("f64")),
   DecibelRatio("f32", Ten("f32")), DecibelRatio("f64", Minus6dB("f64"))}

\* a temporary kept in one static slot: a step reads what the thread that
\* stored last left there
LocalShared(t) ==
  IF \E u \in Threads : u # t /\ th[u].x # NoValue
    THEN th[CHOOSE u \in Threads : u # t /\ th[u].x # NoValue].x
    ELSE th[t].x

\* the temporary a step of thread t reads: the one of t's own call
Local(t) == th[t].x

\* thread t calls into() on the wrapper w
Call(t, w) ==
  /\ th[t].pc = "idle"
  /\ th' = [th EXCEPT ![t] = [pc |-> "read", arg |-> w, x |-> NoValue,
                              out |-> NoValue]]
  /\ UNCHANGED caller

\* amplitude.amplitude_value() or decibels.decibel_value()
StepRead(t) ==
  /\ th[t].pc = "read"
  /\ th' = [th EXCEPT ![t].x = IF th[t].arg.kind = "AmplitudeRatio"
                                 THEN amplitude_value(th[t].arg)
                                 ELSE decibel_value(th[t].arg),
                      ![t].pc = IF th[t].arg.kind = "AmplitudeRatio"
                                  THEN "log10" ELSE "div"]
  /\ UNCHANGED caller

\* <$T>::log10(..)
StepLog10(t) ==
  /\ th[t].pc = "log10"
  /\ th' = [th EXCEPT ![t].x = Log10(th[t].arg.F, Local(t)),
                      ![t].pc = "mul"]
  /\ UNCHANGED caller

\* DecibelRatio(.. * 20.0)
StepMul(t) ==
  /\ th[t].pc = "mul"
  /\ th' = [th EXCEPT ![t].out = DecibelRatio(th[t].arg.F,
                                              FMulInt(th[t].arg.F, Local(t), 20)),
                      ![t].pc = "done"]
  /\ UNCHANGED caller

\* .. / 20.0
StepDiv(t) ==
  /\ th[t].pc = "div"
  /\ th' = [th EXCEPT ![t].x = FDivInt(th[t].arg.F, Local(t), 20),
                      ![t].pc = "powf"]
  /\ UNCHANGED caller

\* AmplitudeRatio(<$T>::powf(10.0, ..))
StepPowf(t) ==
  /\ th[t].pc = "powf"
  /\ th' = [th EXCEPT ![t].out = AmplitudeRatio(th[t].arg.F,
                                                Pow10(th[t].arg.F, Local(t))),
                      ![t].pc = "done"]
  /\ UNCHANGED caller

\* the call returns and the thread goes on to its next call
Return(t) ==
  /\ th[t].pc = "done"
  /\ th' = [th EXCEPT ![t] = Idle]
  /\ UNCHANGED caller

InitConc ==
  /\ th = [t \in Threads |-> Idle]
  /\ src = AmplitudeRatio("f32", One("f32"))
  /\ cur = src
  /\ prev = src
  /\ op = "new"
  /\ ret = NoValue
  /\ conv = 0

NextConc ==
  \E t \in Threads :
    \/ \E w \in ConcWrappers : Call(t, w)
    \/ StepRead(t)
    \/ StepLog10(t)
    \/ StepMul(t)
    \/ StepDiv(t)
    \/ StepPowf(t)
    \/ Return(t)

SpecConc == InitConc /\ [][NextConc]_vars

-----------------------------------------------------------------------------
(* Comparison within the tolerance of the tests,                           *)
(*   result >= expected - 0.001 && result <= expected + 0.001,             *)
(* on the exact values of two floating-point numbers.                      *)

IsNumber(x) == x.c \in {"fin", "zero"}

\* |x| < 2^TopBit(x)
TopBit(x) == IF x.c = "fin" THEN x.e + BBitLen(x.m) ELSE -2000

\* floor(|x| * 2^fb)
MagFix(x, fb) ==
  IF x.c # "fin" THEN BZero
  ELSE IF x.e + fb >= 0 THEN BShl(x.m, x.e + fb)
  ELSE BShr(x.m, -(x.e + fb))

\* |x - y| <= 0.001.  Values below 2^16 are compared with 72 fraction bits,
\* larger ones with as many as fit; from 2^48 on two values of a format
\* differ by more than 0.001 unless they are equal.
Within(x, y) ==
  /\ IsNumber(x)
  /\ IsNumber(y)
  /\ LET top == IF TopBit(x) > TopBit(y) THEN TopBit(x) ELSE TopBit(y)
         fb == IF top <= 16 THEN FracBits ELSE 88 - top
         a == MagFix(x, fb)
         b == MagFix(y, fb)
         diff == IF x.s # y.s THEN BAdd(a, b)
                 ELSE IF BLe(a, b) THEN BSub(b, a) ELSE BSub(a, b)
     IN  IF fb < 40 THEN x = y
         ELSE BLe(diff, BShr(Dec0_001, FracBits - fb))

\* |x| <= n for a number x and an integer 0 < n < 2^15
AbsLe(x, n) ==
  /\ IsNumber(x)
  /\ TopBit(x) <= 16
  /\ BLe(MagFix(x, FracBits), BShl(BFromInt(n), FracBits))

\* x is a value of the format F
IsValueOf(F, x) ==
  \/ x \in Specials
  \/ /\ x.c = "fin"
     /\ x.s \in {0, 1}
     /\ BBitLen(x.m) <= Precision(F)
     /\ x.e >= EMin(F) - Precision(F) + 1
     /\ x.e + Precision(F) - 1 <= EMax(F)
     /\ (BBitLen(x.m) = Precision(F) \/ x.e = EMin(F) - Precision(F) + 1)
     /\ x.m # BZero

Pow2(F, k) == Round(F, 0, BFromInt(1), k)

\* the pairs of the tests and the doc examples (lib.rs 36-37, 61-62, 134-189),
\* and the powers of two at 6.02059991327962 dB each
DecibelReference(F) ==
  {<<One(F), Zero(0)>>, <<Half(F), Minus6dB(F)>>, <<Two(F), Plus6dB(F)>>,
   <<Lsb16(F), Minus90dB(F)>>}
  \cup {<<Pow2(F, k), DbOfPow2(F, k)>> : k \in -MaxExp..MaxExp}

AmplitudeReference(F) ==
  {<<Zero(0), One(F)>>, <<Minus6dB(F), Half(F)>>, <<Plus6dB(F), Two(F)>>,
   <<Ten(F), Sqrt10(F)>>, <<Minus90dB(F), Lsb16(F)>>}
  \cup {<<DbOfPow2(F, k), Pow2(F, k)>> : k \in -MaxExp..3}

-----------------------------------------------------------------------------
(* The claims.                                                             *)

\* C1: converting an AmplitudeRatio<F> gives a DecibelRatio<F> of the same
\* precision holding 20 * log10(a): within 0.001 of the expected decibels at
\* every reference amplitude (1.0 -> 0, 0.5 -> -6.0206, 2.0 -> +6.0206,
\* 1/32767 -> -90.3087, 2^k -> k * 6.0206).
C1_AmplitudeToDecibel ==
  op = "into_decibel" =>
    /\ cur.kind = "DecibelRatio"
    /\ cur.F = prev.F
    /\ \A r \in DecibelReference(prev.F) :
         prev.v = r[1] => Within(cur.v, r[2])

C1_Witness ==
  /\ op = "into_decibel"
  /\ prev.F = "f32"
  /\ prev.v = Lsb16("f32")
  /\ cur.v.c = "fin"
  /\ cur.v.s = 1

\* C2: converting a DecibelRatio<F> gives an AmplitudeRatio<F> of the same
\* precision holding 10^(d / 20): within 0.001 of the expected amplitude at
\* every reference point (0 -> 1, -6.0206 -> 0.5, +6.0206 -> 2.0,
\* 10 -> 3.1623, -90.3087 -> 1/32767, k * 6.0206 -> 2^k).
C2_DecibelToAmplitude ==
  op = "into_amplitude" =>
    /\ cur.kind = "AmplitudeRatio"
    /\ cur.F = prev.F
    /\ \A r \in AmplitudeReference(prev.F) :
         prev.v = r[1] => Within(cur.v, r[2])

C2_Witness ==
  /\ op = "into_amplitude"
  /\ prev.F = "f64"
  /\ prev.v = Ten("f64")
  /\ cur.v.c = "fin"

\* a round trip: the wrapper was converted and converted back
RoundTrip == conv = 2

\* C3 as claimed: for every finite amplitude a > 0 and for every finite
\* decibel value d, the round trip is within 0.001 of the value it began with.
C3_RoundTripAll ==
  /\ (RoundTrip /\ src.kind = "AmplitudeRatio" /\ src.v.c = "fin" /\ src.v.s = 0)
       => Within(cur.v, src.v)
  /\ (RoundTrip /\ src.kind = "DecibelRatio" /\ IsNumber(src.v))
       => Within(cur.v, src.v)

\* C3 amended: the round trip is within 0.001 of the value it began with for
\* every amplitude 0 < a <= 100 and every decibel value -100 <= d <= 100.
C3_RoundTripBounded ==
  /\ (RoundTrip /\ src.kind = "AmplitudeRatio" /\ src.v.c = "fin" /\ src.v.s = 0
        /\ AbsLe(src.v, 100))
       => (cur.kind = "AmplitudeRatio" /\ Within(cur.v, src.v))
  /\ (RoundTrip /\ src.kind = "DecibelRatio" /\ AbsLe(src.v, 100))
       => (cur.kind = "DecibelRatio" /\ Within(cur.v, src.v))

C3_Witness ==
  /\ RoundTrip
  /\ src.kind = "AmplitudeRatio"
  /\ src.F = "f32"
  /\ src.v = Round("f32", 0, BFromInt(3), 5)
  /\ cur.v # src.v
  /\ Within(cur.v, src.v)

\* C4: an amplitude of 0.0 converts to negative infinity.
C4_ZeroAmplitude ==
  (op = "into_decibel" /\ prev.v.c = "zero") => cur.v = Inf(1)

C4_Witness ==
  /\ op = "into_decibel"
  /\ prev.v = Zero(0)
  /\ cur = DecibelRatio(prev.F, Inf(1))

\* C5: a decibel value of negative infinity converts to the amplitude 0.0,
\* and positive infinity to positive infinity.
C5_InfiniteDecibels ==
  (op = "into_amplitude" /\ prev.v.c = "inf") =>
    cur.v = (IF prev.v.s = 1 THEN Zero(0) ELSE Inf(0))

C5_Witness ==
  /\ op = "into_amplitude"
  /\ prev.v = Inf(1)
  /\ cur = AmplitudeRatio(prev.F, Zero(0))

\* C6: 0 dB converts to the amplitude 1.0 exactly, and the amplitude 1.0 to
\* 0 dB exactly.
C6_UnitPoint ==
  /\ (op = "into_amplitude" /\ prev.v.c = "zero") => cur.v = One(cur.F)
  /\ (op = "into_decibel" /\ prev.v = One(prev.F)) => cur.v.c = "zero"

C6_Witness ==
  /\ op = "into_decibel"
  /\ prev.v = One(prev.F)
  /\ src = DecibelRatio(prev.F, Zero(0))
  /\ cur.v.c = "zero"

\* C7: a negative amplitude, finite or infinite, converts to NaN.
C7_NegativeAmplitude ==
  (op = "into_decibel" /\ prev.v.s = 1 /\ prev.v.c \in {"fin", "inf"}) =>
    cur = DecibelRatio(prev.F, NaN)

C7_Witness ==
  /\ op = "into_decibel"
  /\ prev.v = Round(prev.F, 1, BFromInt(3), 0)
  /\ cur.v = NaN

\* C8: every conversion returns a wrapper of the other kind holding a value
\* of the same format, whatever the input (finite, zero, infinite, NaN), and
\* NaN converts to NaN.
C8_Total ==
  /\ op = "into_decibel" =>
       /\ cur.kind = "DecibelRatio" /\ cur.F = prev.F /\ IsValueOf(cur.F, cur.v)
       /\ prev.v = NaN => cur.v = NaN
  /\ op = "into_amplitude" =>
       /\ cur.kind = "AmplitudeRatio" /\ cur.F = prev.F /\ IsValueOf(cur.F, cur.v)
       /\ prev.v = NaN => cur.v = NaN

C8_Witness ==
  /\ op = "into_amplitude"
  /\ prev.v = NaN
  /\ src.kind = "AmplitudeRatio"
  /\ src.v.c = "fin"
  /\ cur.v = NaN

\* C9: an accessor returns exactly the wrapped value and leaves the wrapper
\* as it was.
C9_Accessors ==
  /\ op = "amplitude_value" =>
       (cur.kind = "AmplitudeRatio" /\ ret = cur.v /\ cur = prev)
  /\ op = "decibel_value" =>
       (cur.kind = "DecibelRatio" /\ ret = cur.v /\ cur = prev)

C9_Witness ==
  /\ op = "amplitude_value"
  /\ conv = 2
  /\ ret = cur.v
  /\ ret.c = "fin"
  /\ ret # src.v

\* what each conversion returns when it is the only call made
Alone == [w \in ConcWrappers |->
            IF w.kind = "AmplitudeRatio" THEN DecibelFrom(w) ELSE AmplitudeFrom(w)]

\* C10: whatever calls came before and whatever the other threads do
\* meanwhile, a conversion returns what it returns when made alone.
C10_Pure ==
  \A t \in Threads : th[t].pc = "done" => th[t].out = Alone[th[t].arg]

C10_Witness ==
  /\ th[1].pc = "done"
  /\ th[1].arg = AmplitudeRatio("f64", Lsb16("f64"))
  /\ th[1].out = Alone[th[1].arg]
  /\ th[2].pc = "powf"
  /\ th[2].arg = DecibelRatio("f32", Ten("f32"))

====
